---- MODULE Spec2Model ----
(***************************************************************************)
(* Model of DimsInventoryClient (src/ignite_travel/sdk/client.py).         *)
(*                                                                         *)
(* One invocation of a public operation is two steps: the call step runs   *)
(* the validation, builds the request document and hands it to             *)
(* requests.request (pc = "sent"); the completion step is the HTTP         *)
(* response coming back: raise_for_status, then the operation's parsing.   *)
(* Texts are sequences of one-character strings, so that int(), strptime,  *)
(* strftime and str() are computed character by character.                 *)
(***************************************************************************)
EXTENDS Integers, Sequences, FiniteSets

(***************************************************************************)
(* Bounds of the model.                                                    *)
(***************************************************************************)
MaxRooms == 2
MaxRates == 2
MaxEntries == 3
MaxTicks == 2

(***************************************************************************)
(* Text helpers.                                                           *)
(***************************************************************************)
DigitChars == {"0", "1", "2", "3", "4", "5", "6", "7", "8", "9"}

NonZeroDigitChars == DigitChars \ {"0"}

DigitVal(c) ==
  CASE c = "0" -> 0 [] c = "1" -> 1 [] c = "2" -> 2 [] c = "3" -> 3
    [] c = "4" -> 4 [] c = "5" -> 5 [] c = "6" -> 6 [] c = "7" -> 7
    [] c = "8" -> 8 [] c = "9" -> 9

DigitChar(n) ==
  CASE n = 0 -> "0" [] n = 1 -> "1" [] n = 2 -> "2" [] n = 3 -> "3"
    [] n = 4 -> "4" [] n = 5 -> "5" [] n = 6 -> "6" [] n = 7 -> "7"
    [] n = 8 -> "8" [] n = 9 -> "9"

IsDigits(s) == \A i \in DOMAIN s : s[i] \in DigitChars

RECURSIVE TextToNat(_)
TextToNat(s) ==
  IF s = <<>> THEN 0
  ELSE TextToNat(SubSeq(s, 1, Len(s) - 1)) * 10 + DigitVal(s[Len(s)])

RECURSIVE NatToText(_)
NatToText(n) ==
  IF n < 10 THEN <<DigitChar(n)>>
  ELSE NatToText(n \div 10) \o <<DigitChar(n % 10)>>

RECURSIVE ZeroPad(_, _)
ZeroPad(s, width) == IF Len(s) >= width THEN s ELSE ZeroPad(<<"0">> \o s, width)

RECURSIVE LStrip(_)
LStrip(s) == IF s # <<>> /\ s[1] = " " THEN LStrip(Tail(s)) ELSE s

RECURSIVE RStrip(_)
RStrip(s) ==
  IF s # <<>> /\ s[Len(s)] = " " THEN RStrip(SubSeq(s, 1, Len(s) - 1)) ELSE s

Strip(s) == RStrip(LStrip(s))

(***************************************************************************)
(* Python values handed to the operations as identifiers: an int, or a str *)
(* holding a text.                                                         *)
(***************************************************************************)
PyIntVal(n) == [type |-> "int", v |-> n, s |-> <<>>]

PyStrVal(t) == [type |-> "str", v |-> 0, s |-> t]

\* int(x): an int is returned as it is; a str is stripped of surrounding
\* whitespace, may carry one sign, and must then be decimal digits only,
\* otherwise ValueError (ok = FALSE).
int(x) ==
  IF x.type = "int" THEN [ok |-> TRUE, v |-> x.v]
  ELSE LET t == Strip(x.s)
           signed == t # <<>> /\ t[1] \in {"+", "-"}
           body == IF signed THEN Tail(t) ELSE t
       IN IF body # <<>> /\ IsDigits(body)
          THEN [ok |-> TRUE,
                v |-> IF signed /\ t[1] = "-" THEN 0 - TextToNat(body)
                      ELSE TextToNat(body)]
          ELSE [ok |-> FALSE, v |-> 0]

\* str(n) of an int, as the f-strings of the request documents render it.
str(n) == IF n < 0 THEN <<"-">> \o NatToText(0 - n) ELSE NatToText(n)

(***************************************************************************)
(* Dates.                                                                  *)
(***************************************************************************)
Date(y, m, d) == [year |-> y, month |-> m, day |-> d]

IsLeap(y) == (y % 4 = 0 /\ y % 100 # 0) \/ y % 400 = 0

DaysInMonth(y, m) ==
  IF m = 2 THEN (IF IsLeap(y) THEN 29 ELSE 28)
  ELSE IF m \in {4, 6, 9, 11} THEN 30 ELSE 31

DateLT(a, b) ==
  \/ a.year < b.year
  \/ a.year = b.year /\ a.month < b.month
  \/ a.year = b.year /\ a.month = b.month /\ a.day < b.day

DateLE(a, b) == a = b \/ DateLT(a, b)

NextDay(a) ==
  IF a.day < DaysInMonth(a.year, a.month) THEN Date(a.year, a.month, a.day + 1)
  ELSE IF a.month < 12 THEN Date(a.year, a.month + 1, 1)
  ELSE Date(a.year + 1, 1, 1)

\* The three "-"-separated fields of a date text, <<>> when the text does
\* not have exactly two separators.
DashPos(s) == {i \in DOMAIN s : s[i] = "-"}

Fields(s) ==
  IF Cardinality(DashPos(s)) # 2 THEN <<>>
  ELSE LET i == CHOOSE p \in DashPos(s) : \A q \in DashPos(s) : p <= q
           j == CHOOSE p \in DashPos(s) : \A q \in DashPos(s) : q <= p
       IN <<SubSeq(s, 1, i - 1), SubSeq(s, i + 1, j - 1), SubSeq(s, j + 1, Len(s))>>

\* The directives' patterns: %Y is \d\d\d\d, %m is 1[0-2]|0[1-9]|[1-9],
\* %d is 3[01]|[12]\d|0[1-9]|[1-9]| [1-9].
MatchY(t) == Len(t) = 4 /\ IsDigits(t)

MatchM(t) ==
  \/ Len(t) = 2 /\ t[1] = "1" /\ t[2] \in {"0", "1", "2"}
  \/ Len(t) = 2 /\ t[1] = "0" /\ t[2] \in NonZeroDigitChars
  \/ Len(t) = 1 /\ t[1] \in NonZeroDigitChars

MatchD(t) ==
  \/ Len(t) = 2 /\ t[1] = "3" /\ t[2] \in {"0", "1"}
  \/ Len(t) = 2 /\ t[1] \in {"1", "2"} /\ t[2] \in DigitChars
  \/ Len(t) = 2 /\ t[1] = "0" /\ t[2] \in NonZeroDigitChars
  \/ Len(t) = 1 /\ t[1] \in NonZeroDigitChars
  \/ Len(t) = 2 /\ t[1] = " " /\ t[2] \in NonZeroDigitChars

NoDate == Date(0, 0, 0)

\* datetime.strptime(s, fmt).date(): the text must match the format as a
\* whole and name a day of the calendar, otherwise ValueError (ok = FALSE).
strptime(s, fmt) ==
  LET f == Fields(s)
      ty == IF fmt = "%Y-%m-%d" THEN f[1] ELSE f[3]
      td == IF fmt = "%Y-%m-%d" THEN f[3] ELSE f[1]
  IN IF f = <<>> \/ ~MatchY(ty) \/ ~MatchM(f[2]) \/ ~MatchD(td)
     THEN [ok |-> FALSE, date |-> NoDate]
     ELSE LET y == TextToNat(ty)
              m == TextToNat(f[2])
              d == TextToNat(LStrip(td))
          IN IF y >= 1 /\ d <= DaysInMonth(y, m)
             THEN [ok |-> TRUE, date |-> Date(y, m, d)]
             ELSE [ok |-> FALSE, date |-> NoDate]

\* date.strftime("%Y-%m-%d").
strftime(a) ==
  ZeroPad(NatToText(a.year), 4) \o <<"-">> \o ZeroPad(NatToText(a.month), 2)
    \o <<"-">> \o ZeroPad(NatToText(a.day), 2)

\* str(date), which is what an f-string renders for a date object: the ISO
\* form YYYY-MM-DD.
isoformat(a) ==
  ZeroPad(NatToText(a.year), 4) \o <<"-">> \o ZeroPad(NatToText(a.month), 2)
    \o <<"-">> \o ZeroPad(NatToText(a.day), 2)

(***************************************************************************)
(* Inputs of the calls.                                                    *)
(***************************************************************************)
IdValues ==
  { PyIntVal(7),
    PyStrVal(<<"1", "2">>),
    PyStrVal(<<" ", "3">>),
    PyStrVal(<<"x", "7">>),
    PyStrVal(<<"3", ".", "5">>) }

QtyValues ==
  { PyIntVal(0), PyStrVal(<<"5">>), PyStrVal(<<"m", "a", "n", "y">>) }

Y2030 == <<"2", "0", "3", "0">>

Ymd(m, d) == Y2030 \o <<"-">> \o m \o <<"-">> \o d

Dmy(d, m) == d \o <<"-">> \o m \o <<"-">> \o Y2030

DateTexts ==
  { Ymd(<<"0", "1">>, <<"0", "9">>),
    Ymd(<<"0", "1">>, <<"1", "0">>),
    Ymd(<<"1">>, <<"1", "1">>),
    Ymd(<<"0", "1">>, <<"1", "2">>),
    Ymd(<<"0", "2">>, <<"3", "0">>),
    Dmy(<<"1", "0">>, <<"0", "1">>),
    Dmy(<<"9">>, <<"1">>),
    Dmy(<<"3", "1">>, <<"0", "2">>),
    <<"2", "0", "3", "0", "/", "0", "1", "/", "1", "0">>,
    <<>> }

FirstDay == Date(2030, 1, 10)

(***************************************************************************)
(* State.                                                                  *)
(***************************************************************************)
VARIABLES
  pc,          \* "idle", "sent" (blocked in requests.request), "done", "error"
  op,          \* the public operation being invoked, "none" when idle
  args,        \* the caller's arguments of the invocation
  now,         \* the calendar day datetime.now().date() returns
  ticks,       \* how many times the day has changed
  clockReads,  \* the days read by datetime.now() during the invocation
  requests,    \* the HTTP requests issued by the invocation, in order
  response,    \* the HTTP response received
  parsed,      \* ET.fromstring has run on the response text
  result,      \* the value returned to the caller
  error        \* the exception raised to the caller

vars ==
  <<pc, op, args, now, ticks, clockReads, requests, response, parsed, result, error>>

NoArgs == [none |-> TRUE]

NoResponse == [status |-> 0, body |-> <<>>]

NoResult == [kind |-> "unset", value |-> <<>>]

NoError == [type |-> "none", msg |-> ""]

ValueError(m) == [type |-> "ValueError", msg |-> m]

Init ==
  /\ pc = "idle"
  /\ op = "none"
  /\ args = NoArgs
  /\ now = FirstDay
  /\ ticks = 0
  /\ clockReads = <<>>
  /\ requests = <<>>
  /\ response = NoResponse
  /\ parsed = FALSE
  /\ result = NoResult
  /\ error = NoError

(***************************************************************************)
(* make_request up to requests.request: one POST to the inventory service  *)
(* with the SOAPAction header of the operation.                            *)
(***************************************************************************)
make_request(action_header, payload) ==
  [method |-> "POST", service_type |-> "inventory",
   SOAPAction |-> action_header, payload |-> payload]

\* The outcome of the first half of an operation: the exception its
\* validation raises, or the requests it issues.
Raise(e) == [error |-> e, requests |-> <<>>]

Send(action_header, payload) ==
  [error |-> NoError, requests |-> <<make_request(action_header, payload)>>]

(***************************************************************************)
(* get_roomlist, lines 63-76.                                              *)
(***************************************************************************)
get_roomlist_call(resort_id) ==
  IF ~int(resort_id).ok THEN Raise(ValueError("Resort ID must be an integer"))
  ELSE Send("GetRoomList",
            [Request |-> "RoomsList", ResortId |-> str(int(resort_id).v)])

(***************************************************************************)
(* retrieve_availability, lines 108-140.  now1 and now2 are the days the   *)
(* two datetime.now() calls return.                                        *)
(***************************************************************************)
\* Variant: the past checks use <= and so reject today.
retrieve_availability_call_today_rejected(room_id, resort_id, start_date, end_date, now1, now2) ==
  IF ~int(resort_id).ok \/ ~int(room_id).ok
  THEN Raise(ValueError("Resort ID and Room ID must be integers"))
  ELSE IF ~strptime(start_date, "%Y-%m-%d").ok \/ ~strptime(end_date, "%Y-%m-%d").ok
  THEN Raise(ValueError("Invalid date format"))
  ELSE LET sd == strptime(start_date, "%Y-%m-%d").date
           ed == strptime(end_date, "%Y-%m-%d").date
       IN IF DateLT(ed, sd)
          THEN Raise(ValueError("Start date must be before end date"))
          ELSE IF DateLE(sd, now1)
          THEN Raise(ValueError("Start date must be in the future"))
          ELSE IF DateLE(ed, now2)
          THEN Raise(ValueError("End date must be in the future"))
          ELSE Send("RetrieveAvailability",
                    [Request |-> "Availability",
                     RoomId |-> str(int(room_id).v),
                     ResortId |-> str(int(resort_id).v),
                     Dates |-> <<strftime(sd), strftime(ed)>>])

\* Variant: the dates are parsed before the identifiers.
retrieve_availability_call_dates_first(room_id, resort_id, start_date, end_date, now1, now2) ==
  IF ~strptime(start_date, "%Y-%m-%d").ok \/ ~strptime(end_date, "%Y-%m-%d").ok
  THEN Raise(ValueError("Invalid date format"))
  ELSE IF ~int(resort_id).ok \/ ~int(room_id).ok
  THEN Raise(ValueError("Resort ID and Room ID must be integers"))
  ELSE LET sd == strptime(start_date, "%Y-%m-%d").date
           ed == strptime(end_date, "%Y-%m-%d").date
       IN IF DateLT(ed, sd)
          THEN Raise(ValueError("Start date must be before end date"))
          ELSE IF DateLT(sd, now1)
          THEN Raise(ValueError("Start date must be in the future"))
          ELSE IF DateLT(ed, now2)
          THEN Raise(ValueError("End date must be in the future"))
          ELSE Send("RetrieveAvailability",
                    [Request |-> "Availability",
                     RoomId |-> str(int(room_id).v),
                     ResortId |-> str(int(resort_id).v),
                     Dates |-> <<strftime(sd), strftime(ed)>>])

retrieve_availability_call(room_id, resort_id, start_date, end_date, now1, now2) ==
  IF ~int(resort_id).ok \/ ~int(room_id).ok
  THEN Raise(ValueError("Resort ID and Room ID must be integers"))
  ELSE IF ~strptime(start_date, "%Y-%m-%d").ok \/ ~strptime(end_date, "%Y-%m-%d").ok
  THEN Raise(ValueError("Invalid date format"))
  ELSE LET sd == strptime(start_date, "%Y-%m-%d").date
           ed == strptime(end_date, "%Y-%m-%d").date
       IN IF DateLT(ed, sd)
          THEN Raise(ValueError("Start date must be before end date"))
          ELSE IF DateLT(sd, now1)
          THEN Raise(ValueError("Start date must be in the future"))
          ELSE IF DateLT(ed, now2)
          THEN Raise(ValueError("End date must be in the future"))
          ELSE Send("RetrieveAvailability",
                    [Request |-> "Availability",
                     RoomId |-> str(int(room_id).v),
                     ResortId |-> str(int(resort_id).v),
                     Dates |-> <<strftime(sd), strftime(ed)>>])

\* How many datetime.now() calls the validation reaches.
retrieve_availability_reads(room_id, resort_id, start_date, end_date, now1) ==
  IF ~int(resort_id).ok \/ ~int(room_id).ok THEN 0
  ELSE IF ~strptime(start_date, "%Y-%m-%d").ok \/ ~strptime(end_date, "%Y-%m-%d").ok
  THEN 0
  ELSE LET sd == strptime(start_date, "%Y-%m-%d").date
           ed == strptime(end_date, "%Y-%m-%d").date
       IN IF DateLT(ed, sd) THEN 0 ELSE IF DateLT(sd, now1) THEN 1 ELSE 2

(***************************************************************************)
(* update_availability, lines 156-182.  The date parsed at line 164        *)
(* replaces the caller's text, and line 175 renders that date object.      *)
(***************************************************************************)
\* Variant: the date is checked against the format of the other operations.
update_availability_call_ymd(room_id, resort_id, date, qty) ==
  IF ~int(room_id).ok \/ ~int(resort_id).ok \/ ~int(qty).ok
  THEN Raise(ValueError("Room ID, Resort ID and Quantity must be integers"))
  ELSE IF ~strptime(date, "%Y-%m-%d").ok
  THEN Raise(ValueError("Invalid date format"))
  ELSE Send("UpdateInventory",
            [Request |-> "InventoryUpdate",
             RoomId |-> str(int(room_id).v),
             ResortId |-> str(int(resort_id).v),
             Date |-> isoformat(strptime(date, "%Y-%m-%d").date),
             InventoryAllocation |-> str(int(qty).v)])

update_availability_call(room_id, resort_id, date, qty) ==
  IF ~int(room_id).ok \/ ~int(resort_id).ok \/ ~int(qty).ok
  THEN Raise(ValueError("Room ID, Resort ID and Quantity must be integers"))
  ELSE IF ~strptime(date, "%d-%m-%Y").ok
  THEN Raise(ValueError("Invalid date format"))
  ELSE Send("UpdateInventory",
            [Request |-> "InventoryUpdate",
             RoomId |-> str(int(room_id).v),
             ResortId |-> str(int(resort_id).v),
             Date |-> isoformat(strptime(date, "%d-%m-%Y").date),
             InventoryAllocation |-> str(int(qty).v)])

(***************************************************************************)
(* get_bookings, lines 191-212.  Lines 206-207 render the date objects.    *)
(***************************************************************************)
get_bookings_call(resort_id, start_date, end_date) ==
  IF ~int(resort_id).ok THEN Raise(ValueError("Resort ID must be an integer"))
  ELSE IF ~strptime(start_date, "%Y-%m-%d").ok \/ ~strptime(end_date, "%Y-%m-%d").ok
  THEN Raise(ValueError("Invalid date format"))
  ELSE Send("GetBookingsListWithRoomRateIds",
            [Request |-> "GetBookingsListWithRoomRateIds",
             ResortId |-> str(int(resort_id).v),
             Dates |-> <<isoformat(strptime(start_date, "%Y-%m-%d").date),
                         isoformat(strptime(end_date, "%Y-%m-%d").date)>>])

(***************************************************************************)
(* The call steps.                                                         *)
(***************************************************************************)
Begin(name, a, out) ==
  /\ op' = name
  /\ args' = a
  /\ requests' = out.requests
  /\ error' = out.error
  /\ pc' = IF out.error = NoError THEN "sent" ELSE "error"
  /\ UNCHANGED <<response, parsed, result>>

get_roomlist ==
  /\ pc = "idle"
  /\ \E resort_id \in IdValues :
    /\ Begin("get_roomlist", [resort_id |-> resort_id], get_roomlist_call(resort_id))
    /\ UNCHANGED <<now, ticks, clockReads>>

retrieve_availability ==
  /\ pc = "idle"
  /\ \E room_id \in IdValues, resort_id \in IdValues,
     start_date \in DateTexts, end_date \in DateTexts, midnight \in BOOLEAN :
    LET reads == retrieve_availability_reads(room_id, resort_id, start_date, end_date, now)
        now2 == IF midnight THEN NextDay(now) ELSE now
    IN /\ midnight => (reads = 2 /\ ticks < MaxTicks)
       /\ Begin("retrieve_availability",
                [room_id |-> room_id, resort_id |-> resort_id,
                 start_date |-> start_date, end_date |-> end_date],
                retrieve_availability_call(room_id, resort_id, start_date, end_date,
                                           now, now2))
       /\ clockReads' = SubSeq(<<now, now2>>, 1, reads)
       /\ now' = now2
       /\ ticks' = IF midnight THEN ticks + 1 ELSE ticks

update_availability ==
  /\ pc = "idle"
  /\ \E room_id \in IdValues, resort_id \in IdValues,
     date \in DateTexts, qty \in QtyValues :
    /\ Begin("update_availability",
             [room_id |-> room_id, resort_id |-> resort_id, date |-> date, qty |-> qty],
             update_availability_call(room_id, resort_id, date, qty))
    /\ UNCHANGED <<now, ticks, clockReads>>

get_bookings ==
  /\ pc = "idle"
  /\ \E resort_id \in IdValues, start_date \in DateTexts, end_date \in DateTexts :
    /\ Begin("get_bookings",
             [resort_id |-> resort_id, start_date |-> start_date, end_date |-> end_date],
             get_bookings_call(resort_id, start_date, end_date))
    /\ UNCHANGED <<now, ticks, clockReads>>

(***************************************************************************)
(* Responses of the service.                                               *)
(***************************************************************************)
SeqsUpTo(S, n) == UNION {[1..k -> S] : k \in 0..n}

Statuses == {200, 404, 500}

\* Variant: only a server error raises.
raise_for_status_server_only(status) ==
  IF 500 <= status /\ status < 600 THEN [type |-> "HTTPError", msg |-> "Server Error"]
  ELSE NoError

\* response.raise_for_status(): HTTPError for 4xx and 5xx.
raise_for_status(status) ==
  IF 400 <= status /\ status < 500 THEN [type |-> "HTTPError", msg |-> "Client Error"]
  ELSE IF 500 <= status /\ status < 600 THEN [type |-> "HTTPError", msg |-> "Server Error"]
  ELSE NoError

\* An element the document lacks (find returns None) is <<>>, one it has is
\* <<text>>.
RoomElements ==
  { [RoomTypeId |-> <<"1">>, Description |-> "Deluxe"],
    [RoomTypeId |-> <<"2">>, Description |-> "Suite"],
    [RoomTypeId |-> <<"1">>, Description |-> "Twin"] }

LinkedRateElements ==
  { [RateId |-> <<<<"1", "0">>>>, RateDescription |-> <<"BAR">>, RoomId |-> <<<<"1">>>>],
    [RateId |-> <<<<"1", "1">>>>, RateDescription |-> <<"Promo">>, RoomId |-> <<<<"1">>>>],
    [RateId |-> <<<<"1", "2">>>>, RateDescription |-> <<"BAR">>, RoomId |-> <<<<"2">>>>],
    [RateId |-> <<<<"1", "3">>>>, RateDescription |-> <<"BAR">>, RoomId |-> <<<<"9">>>>],
    [RateId |-> <<>>, RateDescription |-> <<"BAR">>, RoomId |-> <<<<"1">>>>],
    [RateId |-> <<<<"1", "4">>>>, RateDescription |-> <<>>, RoomId |-> <<<<"2">>>>],
    [RateId |-> <<<<"1", "5">>>>, RateDescription |-> <<"BAR">>, RoomId |-> <<>>] }

RoomListBodies ==
  { [Room |-> r, LinkedRate |-> l] :
      r \in SeqsUpTo(RoomElements, MaxRooms), l \in SeqsUpTo(LinkedRateElements, MaxRates) }

DateSetElements ==
  { [InventoryAvailable |-> <<"5">>, LiteralInventory |-> <<"5">>,
     Date |-> Dmy(<<"1", "2">>, <<"0", "1">>)],
    [InventoryAvailable |-> <<"3">>, LiteralInventory |-> <<"4">>,
     Date |-> Dmy(<<"1", "0">>, <<"0", "1">>)],
    [InventoryAvailable |-> <<"2">>, LiteralInventory |-> <<"2">>,
     Date |-> Dmy(<<"1", "0">>, <<"0", "1">>)],
    [InventoryAvailable |-> <<"0">>, LiteralInventory |-> <<"1">>,
     Date |-> Dmy(<<"1", "1">>, <<"0", "1">>)],
    [InventoryAvailable |-> <<"1">>, LiteralInventory |-> <<"1">>,
     Date |-> Ymd(<<"0", "1">>, <<"1", "1">>)] }

AvailabilityBodies == SeqsUpTo(DateSetElements, MaxEntries)

UpdateBodies == { [Message |-> "Inventory Updated"], [Message |-> "Failed"] }

BookingsBodies ==
  { [MessageType |-> t, Message |-> m, Booking |-> b] :
      t \in {"Error", "Success"}, m \in {"", "Invalid resort", "OK"},
      b \in {<<>>, <<101>>, <<101, 102>>} }

(***************************************************************************)
(* get_roomlist, lines 78-100.                                             *)
(***************************************************************************)
\* Variant: each Room is put in front of the ones parsed before it.
parse_rooms_reversed(elements) ==
  [i \in DOMAIN elements |->
     [room_id |-> int(PyStrVal(elements[Len(elements) + 1 - i].RoomTypeId)).v,
      room_name |-> elements[Len(elements) + 1 - i].Description,
      linked_rate |-> <<>>]]

\* Lines 81-85: one Room per room element, in document order.
parse_rooms(elements) ==
  [i \in DOMAIN elements |->
     [room_id |-> int(PyStrVal(elements[i].RoomTypeId)).v,
      room_name |-> elements[i].Description,
      linked_rate |-> <<>>]]

\* Variant: the linked rate goes to every Room of the referenced identifier.
attach_linked_rate_every_match(rooms, linked_rate) ==
  IF linked_rate.RateId = <<>> \/ linked_rate.RoomId = <<>>
       \/ linked_rate.RateDescription = <<>>
  THEN rooms
  ELSE LET room_id == int(PyStrVal(linked_rate.RoomId[1])).v
           linked_rate_model ==
             [rate_id |-> int(PyStrVal(linked_rate.RateId[1])).v,
              rate_description |-> linked_rate.RateDescription[1],
              room_id |-> room_id]
       IN [i \in DOMAIN rooms |->
             IF rooms[i].room_id = room_id
             THEN [rooms[i] EXCEPT !.linked_rate = <<linked_rate_model>>]
             ELSE rooms[i]]

\* Lines 89-98 for one linked-rate element.
attach_linked_rate(rooms, linked_rate) ==
  IF linked_rate.RateId = <<>> \/ linked_rate.RoomId = <<>>
       \/ linked_rate.RateDescription = <<>>
  THEN rooms
  ELSE LET room_id == int(PyStrVal(linked_rate.RoomId[1])).v
           linked_rate_model ==
             [rate_id |-> int(PyStrVal(linked_rate.RateId[1])).v,
              rate_description |-> linked_rate.RateDescription[1],
              room_id |-> room_id]
           matching == {i \in DOMAIN rooms : rooms[i].room_id = room_id}
       IN IF matching = {} THEN rooms
          ELSE LET first == CHOOSE i \in matching : \A j \in matching : i <= j
               IN [rooms EXCEPT ![first].linked_rate = <<linked_rate_model>>]

\* Lines 87-98: the linked-rate elements in document order.
RECURSIVE attach_linked_rates(_, _)
attach_linked_rates(rooms, elements) ==
  IF elements = <<>> THEN rooms
  ELSE attach_linked_rates(attach_linked_rate(rooms, Head(elements)), Tail(elements))

get_roomlist_parse ==
  /\ pc = "sent"
  /\ op = "get_roomlist"
  /\ \E status \in Statuses, body \in RoomListBodies :
       /\ raise_for_status(status) = NoError
       /\ response' = [status |-> status, body |-> body]
       /\ result' = [kind |-> "RoomList",
                     value |-> attach_linked_rates(parse_rooms(body.Room), body.LinkedRate)]
  /\ parsed' = TRUE
  /\ pc' = "done"
  /\ UNCHANGED <<op, args, now, ticks, clockReads, requests, error>>

(***************************************************************************)
(* retrieve_availability, lines 141-150.                                   *)
(***************************************************************************)
\* Lines 144-147 for one DateSet element.
parse_dateset(dateset) ==
  [inventory_available |-> int(PyStrVal(dateset.InventoryAvailable)).v,
   literal_inventory |-> int(PyStrVal(dateset.LiteralInventory)).v,
   dtm |-> strptime(dateset.Date, "%d-%m-%Y").date]

\* Variant: the list is returned in document order.
sort_by_dtm_document_order(availability) == availability

\* list.sort(key=lambda x: x.dtm): a stable ascending sort.
RECURSIVE sort_by_dtm(_)
sort_by_dtm(availability) ==
  IF availability = <<>> THEN <<>>
  ELSE LET before == sort_by_dtm(SubSeq(availability, 1, Len(availability) - 1))
           x == availability[Len(availability)]
           k == Cardinality({i \in DOMAIN before : DateLE(before[i].dtm, x.dtm)})
       IN SubSeq(before, 1, k) \o <<x>> \o SubSeq(before, k + 1, Len(before))

retrieve_availability_parse ==
  /\ pc = "sent"
  /\ op = "retrieve_availability"
  /\ \E status \in Statuses, body \in AvailabilityBodies :
       /\ raise_for_status(status) = NoError
       /\ response' = [status |-> status, body |-> body]
       /\ IF \E i \in DOMAIN body : ~strptime(body[i].Date, "%d-%m-%Y").ok
          THEN /\ error' = ValueError("time data does not match format")
               /\ pc' = "error"
               /\ UNCHANGED result
          ELSE /\ result' = [kind |-> "list",
                             value |-> sort_by_dtm([i \in DOMAIN body |-> parse_dateset(body[i])])]
               /\ pc' = "done"
               /\ UNCHANGED error
  /\ parsed' = TRUE
  /\ UNCHANGED <<op, args, now, ticks, clockReads, requests>>

(***************************************************************************)
(* update_availability, lines 183-185.                                     *)
(***************************************************************************)
update_availability_parse ==
  /\ pc = "sent"
  /\ op = "update_availability"
  /\ \E status \in Statuses, body \in UpdateBodies :
       /\ raise_for_status(status) = NoError
       /\ response' = [status |-> status, body |-> body]
       /\ result' = [kind |-> "str", value |-> body.Message]
  /\ parsed' = TRUE
  /\ pc' = "done"
  /\ UNCHANGED <<op, args, now, ticks, clockReads, requests, error>>

(***************************************************************************)
(* get_bookings, lines 213-219.  The function ends after the error branch, *)
(* so every other response returns None.                                   *)
(***************************************************************************)
\* Variant: the error marker is looked for in the message.
get_bookings_result_by_message(body) ==
  IF body.Message = "Error" THEN [kind |-> "list", value |-> <<>>]
  ELSE [kind |-> "None", value |-> <<>>]

get_bookings_result(body) ==
  IF body.MessageType = "Error" THEN [kind |-> "list", value |-> <<>>]
  ELSE [kind |-> "None", value |-> <<>>]

get_bookings_parse ==
  /\ pc = "sent"
  /\ op = "get_bookings"
  /\ \E status \in Statuses, body \in BookingsBodies :
       /\ raise_for_status(status) = NoError
       /\ response' = [status |-> status, body |-> body]
       /\ result' = get_bookings_result(body)
  /\ parsed' = TRUE
  /\ pc' = "done"
  /\ UNCHANGED <<op, args, now, ticks, clockReads, requests, error>>

(***************************************************************************)
(* make_request, lines 56-57: a 4xx or 5xx response raises out of the      *)
(* operation; any other response has its text returned and parsed.         *)
(***************************************************************************)
make_request_raises ==
  /\ pc = "sent"
  /\ \E status \in Statuses :
       /\ raise_for_status(status) # NoError
       /\ response' = [status |-> status, body |-> <<>>]
       /\ error' = raise_for_status(status)
  /\ pc' = "error"
  /\ UNCHANGED <<op, args, now, ticks, clockReads, requests, parsed, result>>

(***************************************************************************)
(* The caller, and the calendar.                                           *)
(***************************************************************************)
Return ==
  /\ pc \in {"done", "error"}
  /\ pc' = "idle"
  /\ op' = "none"
  /\ args' = NoArgs
  /\ clockReads' = <<>>
  /\ requests' = <<>>
  /\ response' = NoResponse
  /\ parsed' = FALSE
  /\ result' = NoResult
  /\ error' = NoError
  /\ UNCHANGED <<now, ticks>>

Midnight ==
  /\ pc = "idle"
  /\ ticks < MaxTicks
  /\ now' = NextDay(now)
  /\ ticks' = ticks + 1
  /\ UNCHANGED <<pc, op, args, clockReads, requests, response, parsed, result, error>>

Next ==
  \/ get_roomlist
  \/ retrieve_availability
  \/ update_availability
  \/ get_bookings
  \/ get_roomlist_parse
  \/ retrieve_availability_parse
  \/ update_availability_parse
  \/ get_bookings_parse
  \/ make_request_raises
  \/ Return
  \/ Midnight

Spec == Init /\ [][Next]_vars

(***************************************************************************)
(* Vocabulary of the properties, written without the parsers of the model: *)
(* the texts that denote an integer, and the texts that denote a calendar  *)
(* day in each of the two formats (a month or a day of one digit may be    *)
(* written with or without its leading zero, as strptime reads both).      *)
(***************************************************************************)
IntegerTexts ==
  { pre \o sign \o NatToText(n) \o post :
      pre \in {<<>>, <<" ">>}, sign \in {<<>>, <<"+">>, <<"-">>},
      n \in 0..99, post \in {<<>>, <<" ">>} }

Integral(x) == x.type = "int" \/ x.s \in IntegerTexts

\* The days of the year the modelled calls are about.
CalendarDays ==
  { D \in [year : {FirstDay.year}, month : 1..12, day : 1..31] :
      D.day <= DaysInMonth(D.year, D.month) }

Written(n) == {NatToText(n), ZeroPad(NatToText(n), 2)}

YmdForms(D) ==
  { NatToText(D.year) \o <<"-">> \o m \o <<"-">> \o d :
      m \in Written(D.month), d \in Written(D.day) }

DmyForms(D) ==
  { d \o <<"-">> \o m \o <<"-">> \o NatToText(D.year) :
      m \in Written(D.month), d \in Written(D.day) }

YmdTexts == UNION {YmdForms(D) : D \in CalendarDays}

DmyTexts == UNION {DmyForms(D) : D \in CalendarDays}

YmdDay == [t \in YmdTexts |-> CHOOSE D \in CalendarDays : t \in YmdForms(D)]

DmyDay == [t \in DmyTexts |-> CHOOSE D \in CalendarDays : t \in DmyForms(D)]

Invoked == op # "none"

IdsIntegral ==
  CASE op = "get_roomlist" -> Integral(args.resort_id)
    [] op = "retrieve_availability" -> Integral(args.room_id) /\ Integral(args.resort_id)
    [] op = "update_availability" ->
         Integral(args.room_id) /\ Integral(args.resort_id) /\ Integral(args.qty)
    [] op = "get_bookings" -> Integral(args.resort_id)

DatesWellFormed ==
  CASE op = "get_roomlist" -> TRUE
    [] op = "retrieve_availability" ->
         args.start_date \in YmdTexts /\ args.end_date \in YmdTexts
    [] op = "update_availability" -> args.date \in DmyTexts
    [] op = "get_bookings" ->
         args.start_date \in YmdTexts /\ args.end_date \in YmdTexts

ValidationError == pc = "error" /\ error.type = "ValueError" /\ ~parsed

NoRequestIssued == requests = <<>> /\ response = NoResponse

AvailabilityInputsWellFormed ==
  op = "retrieve_availability" /\ IdsIntegral /\ DatesWellFormed

StartDay == YmdDay[args.start_date]

EndDay == YmdDay[args.end_date]

TodayAtStartCheck == IF clockReads # <<>> THEN clockReads[1] ELSE now

TodayAtEndCheck == now

\* C2: with integer identifiers and two well-formed YYYY-MM-DD dates,
\* retrieve_availability raises a validation error and sends nothing
\* whenever start_date > end_date or a date is strictly before the current
\* date, and proceeds to the network call exactly when
\* today <= start_date <= end_date; a date equal to today is accepted.
C2_RangeAndPastChecks ==
  AvailabilityInputsWellFormed =>
    /\ (DateLT(EndDay, StartDay) \/ DateLT(StartDay, TodayAtStartCheck)
          \/ DateLT(EndDay, TodayAtEndCheck))
         => (ValidationError /\ NoRequestIssued)
    /\ (requests # <<>>)
         <=> (DateLE(TodayAtStartCheck, StartDay) /\ DateLE(StartDay, EndDay)
                /\ DateLE(TodayAtEndCheck, EndDay))

\* Start and end both equal to today, accepted and sent.
C2_Witness ==
  /\ AvailabilityInputsWellFormed
  /\ pc = "sent"
  /\ StartDay = TodayAtStartCheck
  /\ EndDay = TodayAtEndCheck
  /\ Len(requests) = 1

(***************************************************************************)
(* The message of the first validation check that fails, in the order      *)
(* identifiers, date format, range, start in the past, end in the past;    *)
(* "" when no check fails.                                                 *)
(***************************************************************************)
FirstFailingCheck ==
  CASE op = "get_roomlist" ->
         IF ~IdsIntegral THEN "Resort ID must be an integer" ELSE ""
    [] op = "retrieve_availability" ->
         IF ~IdsIntegral THEN "Resort ID and Room ID must be integers"
         ELSE IF ~DatesWellFormed THEN "Invalid date format"
         ELSE IF DateLT(EndDay, StartDay) THEN "Start date must be before end date"
         ELSE IF DateLT(StartDay, TodayAtStartCheck) THEN "Start date must be in the future"
         ELSE IF DateLT(EndDay, TodayAtEndCheck) THEN "End date must be in the future"
         ELSE ""
    [] op = "update_availability" ->
         IF ~IdsIntegral THEN "Room ID, Resort ID and Quantity must be integers"
         ELSE IF ~DatesWellFormed THEN "Invalid date format"
         ELSE ""
    [] op = "get_bookings" ->
         IF ~IdsIntegral THEN "Resort ID must be an integer"
         ELSE IF ~DatesWellFormed THEN "Invalid date format"
         ELSE ""

\* C9: the validation checks run in the order identifiers, date format,
\* then (retrieve_availability) range and past checks, and the error raised
\* is that of the first check in this order that fails, whatever later
\* checks would also fail.
C9_FirstFailingCheckIsReported ==
  Invoked =>
    IF FirstFailingCheck # ""
    THEN ValidationError /\ error.msg = FirstFailingCheck
    ELSE requests # <<>>

\* A non-integer room id together with a malformed date: the identifier
\* error is the one reported.
C9_Witness ==
  /\ op = "retrieve_availability"
  /\ ~Integral(args.room_id)
  /\ args.start_date \notin YmdTexts
  /\ ValidationError
  /\ error.msg = "Resort ID and Room ID must be integers"

(***************************************************************************)
(* Transport.                                                              *)
(***************************************************************************)
ExpectedTransportError ==
  [type |-> "HTTPError",
   msg |-> IF response.status < 500 THEN "Client Error" ELSE "Server Error"]

Returned(name) == pc = "done" /\ op = name

Range(f) == {f[i] : i \in DOMAIN f}

Count(f, x) == Cardinality({i \in DOMAIN f : f[i] = x})

ExpectedAvailability(dateset) ==
  [inventory_available |-> TextToNat(dateset.InventoryAvailable),
   literal_inventory |-> TextToNat(dateset.LiteralInventory),
   dtm |-> DmyDay[dateset.Date]]

\* C3: whatever the order of the DateSet entries of the response, the
\* sequence retrieve_availability returns is non-decreasing by date and is a
\* permutation of the parsed entries, one Availability per DateSet entry.
C3_SortedPermutation ==
  Returned("retrieve_availability") =>
    LET entries == [i \in DOMAIN response.body |-> ExpectedAvailability(response.body[i])]
        out == result.value
    IN /\ result.kind = "list"
       /\ Len(out) = Len(entries)
       /\ \A i, j \in DOMAIN out : i < j => DateLE(out[i].dtm, out[j].dtm)
       /\ \A x \in Range(entries) \cup Range(out) : Count(out, x) = Count(entries, x)

\* A response of three entries in descending document order, two of them
\* on the same day.
C3_Witness ==
  /\ Returned("retrieve_availability")
  /\ Len(response.body) = 3
  /\ DateLT(DmyDay[response.body[2].Date], DmyDay[response.body[1].Date])
  /\ response.body[3].Date = response.body[2].Date
  /\ response.body[3] # response.body[2]
  /\ Len(result.value) = 3

(***************************************************************************)
(* get_roomlist: the returned rooms.                                       *)
(***************************************************************************)
\* C4: get_roomlist returns one Room per room element, in document order,
\* with the element's identifier and name, whatever linked-rate elements
\* the response contains.
C4_RoomsInDocumentOrder ==
  Returned("get_roomlist") =>
    LET elements == response.body.Room
        rooms == result.value
    IN /\ result.kind = "RoomList"
       /\ Len(rooms) = Len(elements)
       /\ \A i \in DOMAIN rooms :
            /\ rooms[i].room_id = TextToNat(elements[i].RoomTypeId)
            /\ rooms[i].room_name = elements[i].Description

\* Two rooms, the second of which received a linked rate.
C4_Witness ==
  /\ Returned("get_roomlist")
  /\ Len(result.value) = 2
  /\ result.value[1].room_id # result.value[2].room_id
  /\ result.value[1].linked_rate = <<>>
  /\ result.value[2].linked_rate # <<>>

Complete(e) == e.RateId # <<>> /\ e.RateDescription # <<>> /\ e.RoomId # <<>>

ExpectedLinkedRate(e) ==
  [rate_id |-> TextToNat(e.RateId[1]),
   rate_description |-> e.RateDescription[1],
   room_id |-> TextToNat(e.RoomId[1])]

\* C5: a linked-rate element is attached only if its three fields are
\* present and a Room has the referenced identifier, and then to the first
\* such Room only; an element missing a field or referencing no Room is
\* discarded without an error and changes no Room's linked-rate slot.
C5_LinkedRateAttachment ==
  Returned("get_roomlist") =>
    LET rates == response.body.LinkedRate
        rooms == result.value
    IN /\ error = NoError
       /\ \A k \in DOMAIN rooms :
            LET candidates ==
                  {j \in DOMAIN rates :
                     Complete(rates[j]) /\ TextToNat(rates[j].RoomId[1]) = rooms[k].room_id}
                first == \A i \in DOMAIN rooms : rooms[i].room_id = rooms[k].room_id => k <= i
            IN IF candidates # {} /\ first
               THEN \E j \in candidates : rooms[k].linked_rate = <<ExpectedLinkedRate(rates[j])>>
               ELSE rooms[k].linked_rate = <<>>

\* Two rooms of the same identifier, a linked rate for it, and an element
\* that is discarded.
C5_Witness ==
  /\ Returned("get_roomlist")
  /\ Len(result.value) = 2
  /\ result.value[1].room_id = result.value[2].room_id
  /\ result.value[1].linked_rate # <<>>
  /\ result.value[2].linked_rate = <<>>
  /\ \E j \in DOMAIN response.body.LinkedRate :
       \/ ~Complete(response.body.LinkedRate[j])
       \/ \A k \in DOMAIN result.value :
            result.value[k].room_id # TextToNat(response.body.LinkedRate[j].RoomId[1])

(***************************************************************************)
(* get_bookings.                                                           *)
(***************************************************************************)
EmptyCollection == [kind |-> "list", value |-> <<>>]

\* C6: get_bookings, given a response whose message type is "Error",
\* returns an empty collection without raising, whatever the message.
C6_ErrorMarkerGivesEmptyCollection ==
  (Returned("get_bookings") /\ response.body.MessageType = "Error")
    => (result = EmptyCollection /\ error = NoError)

C6_Witness ==
  /\ Returned("get_bookings")
  /\ response.body.MessageType = "Error"
  /\ response.body.Message = "Invalid resort"
  /\ result = EmptyCollection

\* C7: the value get_bookings returns for a successful response that
\* contains no bookings equals the value it returns for a response whose
\* message type is the error marker.
C7_NoBookingsEqualsServiceError ==
  (Returned("get_bookings") /\ response.body.MessageType # "Error"
     /\ response.body.Booking = <<>>)
    => \A e \in BookingsBodies :
         e.MessageType = "Error" => result = get_bookings_result(e)

(***************************************************************************)
(* update_availability: the date of the request document.                  *)
(***************************************************************************)
\* C10: for a date accepted by update_availability, the date text embedded
\* in the inventory-update request is the caller's date in DD-MM-YYYY.
C10_UpdateDateSentAsGiven ==
  (op = "update_availability" /\ requests # <<>>)
    => requests[1].payload.Date \in DmyForms(DmyDay[args.date])

====
